---------------------------- MODULE Spec2Model ----------------------------
(* A model of the bitflyer-rs client: the request descriptors of src/api.rs, *)
(* the URL and query construction of ApiRequest::url, and Client::send with  *)
(* its signing protocol, the transport's answers and the response decoding,  *)
(* the derived decoders of the tagged unions of src/entity.rs and the        *)
(* timestamp decoder of src/lib.rs.                                          *)
(* Strings are TLA+ strings; Option<T> is a record with a field "some".      *)
EXTENDS Integers, Sequences, FiniteSets, TLC

VARIABLES client, heap, calls, probe, probeUrl, decoder

vars == <<client, heap, calls, probe, probeUrl, decoder>>

\* ------------------------------------------------------------------ bounds

\* Number of call slots that may run Client::send on the one shared client.
NumCalls == 2

\* Utc::now().timestamp() returns a value in 0..MaxTime.
MaxTime == 1

\* The u64 query and body parameters range over 0..MaxNum.
MaxNum == 1

\* A JSON array of conditions holds at most MaxParams of them.
MaxParams == 4

\* ------------------------------------------------------------------ Option

None == [some |-> FALSE]

Some(x) == [some |-> TRUE, val |-> x]

Opt(S) == {None} \cup {Some(x) : x \in S}

\* Option<String>::unwrap_or_default()
unwrap_or_default(o) == IF o.some THEN o.val ELSE ""

\* ------------------------------------------------------------------ entity

ProductCodes ==
    {"BtcJpy", "XrpJpy", "EthJpy", "XlmJpy", "MonaJpy", "EthBtc", "BchBtc",
     "FxBtcJpy", "Other"}

\* serde's rename_all = "SCREAMING_SNAKE_CASE" name of a ProductCode variant.
ProductCodeWire(p) ==
    CASE p = "BtcJpy" -> "BTC_JPY"
      [] p = "XrpJpy" -> "XRP_JPY"
      [] p = "EthJpy" -> "ETH_JPY"
      [] p = "XlmJpy" -> "XLM_JPY"
      [] p = "MonaJpy" -> "MONA_JPY"
      [] p = "EthBtc" -> "ETH_BTC"
      [] p = "BchBtc" -> "BCH_BTC"
      [] p = "FxBtcJpy" -> "FX_BTC_JPY"
      [] p = "Other" -> "OTHER"

\* serde_json::to_string of a string: the text between double quotes.
JsonStr(s) == "\"" \o s \o "\""

\* str::trim_matches('"') of a JSON string literal produced by JsonStr.
TrimQuotes(s, inner) == IF s = JsonStr(inner) THEN inner ELSE s

\* impl ToString for ProductCode: the JSON rendering with the quotes trimmed.
ProductCodeToString(p) == TrimQuotes(JsonStr(ProductCodeWire(p)), ProductCodeWire(p))

OrderStates == {"Active", "Completed", "Canceled", "Expired", "Rejected"}

\* serde's rename_all = "UPPERCASE" name of an OrderState variant.
OrderStateWire(s) ==
    CASE s = "Active" -> "ACTIVE"
      [] s = "Completed" -> "COMPLETED"
      [] s = "Canceled" -> "CANCELED"
      [] s = "Expired" -> "EXPIRED"
      [] s = "Rejected" -> "REJECTED"

\* impl ToString for OrderState.
OrderStateToString(s) == TrimQuotes(JsonStr(OrderStateWire(s)), OrderStateWire(s))

\* serde's rename_all = "UPPERCASE" name of a Side variant.
SideWire(s) == IF s = "Buy" THEN "BUY" ELSE "SELL"

\* serde's rename_all = "UPPERCASE" name of a TimeInForce variant.
TimeInForceWire(t) ==
    CASE t = "Gtc" -> "GTC" [] t = "Ioc" -> "IOC" [] t = "Fok" -> "FOK"

\* ------------------------------------------------------------ input values

ProductCodeInputs == {"BtcJpy", "FxBtcJpy", "Other"}

Nums == 0..MaxNum

\* Order identifiers; the second holds a space, which the URL encoder rewrites.
OrderIds == {"JRF-1", "JRF 2"}

OrderStateInputs == {"Active", "Completed"}

Decimals == {"0.01", "100"}

TimeInForceInputs == {"Gtc", "Fok"}

\* --------------------------------------------------- request descriptors

ENTRY_POINT == "https://api.bitflyer.com"

\* The descriptors whose only parameter is an optional product code.
ProductQueryKinds == {"GetBoard", "GetTicker", "GetBoardState", "GetBoardHealth"}

\* The descriptors without any field.
UnitKinds ==
    {"GetMarkets", "GetPermissions", "GetBalance", "GetCollateral",
     "GetCollateralAccounts", "GetPositions"}

\* The descriptors that override deserialize_response_body.
CancelKinds == {"CancelChildOrder", "CancelParentOrder", "CancelAllChildOrders"}

\* ApiRequest::PATH of each descriptor.
PATH(kind) ==
    CASE kind = "GetMarkets" -> "/v1/markets"
      [] kind = "GetBoard" -> "/v1/board"
      [] kind = "GetTicker" -> "/v1/ticker"
      [] kind = "GetExecutions" -> "/v1/executions"
      [] kind = "GetBoardState" -> "/v1/getboardstate"
      [] kind = "GetBoardHealth" -> "/v1/gethealth"
      [] kind = "GetPermissions" -> "/v1/me/getpermissions"
      [] kind = "GetBalance" -> "/v1/me/getbalance"
      [] kind = "GetCollateral" -> "/v1/me/getcollateral"
      [] kind = "GetCollateralAccounts" -> "/v1/me/getcollateralaccounts"
      [] kind = "SendChildOrder" -> "/v1/me/sendchildorder"
      [] kind = "CancelChildOrder" -> "/v1/me/cancelchildorder"
      [] kind = "SendParentOrder" -> "/v1/me/sendparentorder"
      [] kind = "CancelParentOrder" -> "/v1/me/cancelparentorder"
      [] kind = "CancelAllChildOrders" -> "/v1/me/cancelallchildorders"
      [] kind = "GetChildOrders" -> "/v1/me/getchildorders"
      [] kind = "GetParentOrders" -> "/v1/me/getparentorders"
      [] kind = "GetParentOrder" -> "/v1/me/getparentorder"
      [] kind = "GetPositions" -> "/v1/me/getpositions"

\* ApiRequest::IS_PRIVATE: false unless the descriptor sets it.
IS_PRIVATE(kind) ==
    kind \notin
        {"GetMarkets", "GetBoard", "GetTicker", "GetExecutions", "GetBoardState",
         "GetBoardHealth"}

\* ApiRequest::METHOD as Method::as_str(): GET unless the descriptor sets POST.
METHOD(kind) ==
    IF kind \in {"SendChildOrder", "CancelChildOrder", "SendParentOrder",
                 "CancelParentOrder", "CancelAllChildOrders"}
    THEN "POST" ELSE "GET"

\* The values of each descriptor type, over the input values above.
UnitRequests == [kind : UnitKinds]

ProductQueryRequests ==
    [kind : ProductQueryKinds, product_code : Opt(ProductCodeInputs)]

GetExecutionsRequests ==
    [kind : {"GetExecutions"}, product_code : Opt(ProductCodeInputs),
     count : Opt(Nums), before : Opt(Nums), after : Opt(Nums)]

GetChildOrdersRequests ==
    [kind : {"GetChildOrders"}, product_code : Opt(ProductCodeInputs),
     count : Opt(Nums), before : Opt(Nums), after : Opt(Nums),
     child_order_acceptance_id : Opt(OrderIds), parent_order_id : Opt(OrderIds)]

GetParentOrdersRequests ==
    [kind : {"GetParentOrders"}, product_code : Opt(ProductCodeInputs),
     count : Opt(Nums), before : Opt(Nums), after : Opt(Nums),
     parent_order_state : Opt(OrderStateInputs)]

GetParentOrderRequests ==
    [kind : {"GetParentOrder"}, parent_order_id : Opt(OrderIds),
     parent_order_acceptance_id : Opt(OrderIds)]

ChildOrderTypes ==
    [tag : {"Limit"}, price : Decimals] \cup [tag : {"Market"}]

SendChildOrderRequests ==
    [kind : {"SendChildOrder"}, child_order_type : ChildOrderTypes,
     product_code : {"BtcJpy"}, side : {"Buy", "Sell"}, size : {"0.01"},
     minute_to_expire : Opt(Nums), time_in_force : Opt(TimeInForceInputs)]

\* ParentOrderMethod::Simple with one Market condition.
SendParentOrderRequests ==
    [kind : {"SendParentOrder"},
     order_method :
        [tag : {"Simple"},
         parameters :
            {<<c>> : c \in [tag : {"Market"}, product_code : {"FxBtcJpy"},
                            side : {"Buy", "Sell"}, size : {"0.01"}]}],
     minute_to_expire : Opt(Nums), time_in_force : Opt(TimeInForceInputs)]

CancelChildOrderRequests ==
    [kind : {"CancelChildOrder"}, product_code : ProductCodeInputs,
     child_order_acceptance_id : OrderIds]

CancelParentOrderRequests ==
    [kind : {"CancelParentOrder"}, product_code : ProductCodeInputs,
     parent_order_acceptance_id : OrderIds]

CancelAllChildOrdersRequests ==
    [kind : {"CancelAllChildOrders"}, product_code : ProductCodeInputs]

AllRequests ==
    UnitRequests \cup ProductQueryRequests \cup GetExecutionsRequests
    \cup GetChildOrdersRequests \cup GetParentOrdersRequests
    \cup GetParentOrderRequests \cup SendChildOrderRequests
    \cup SendParentOrderRequests \cup CancelChildOrderRequests
    \cup CancelParentOrderRequests \cup CancelAllChildOrdersRequests

\* ------------------------------------------------------ query and URL

\* T::to_string for the types T of the query parameters.
to_string(T, x) ==
    CASE T = "u64" -> ToString(x)
      [] T = "String" -> x
      [] T = "ProductCode" -> ProductCodeToString(x)
      [] T = "OrderState" -> OrderStateToString(x)

\* QueryValue for Option<T>: self.clone().map(|x| (key.to_string(), x.to_string())).
to_query_parameter(T, o, key) ==
    IF o.some THEN Some(<<key, to_string(T, o.val)>>) ELSE None

\* url_params of each descriptor: the declared (name, optional value) list.
url_params(req) ==
    CASE req.kind \in ProductQueryKinds ->
           <<to_query_parameter("ProductCode", req.product_code, "product_code")>>
      [] req.kind = "GetExecutions" ->
           <<to_query_parameter("ProductCode", req.product_code, "product_code"),
             to_query_parameter("u64", req.count, "count"),
             to_query_parameter("u64", req.before, "before"),
             to_query_parameter("u64", req.after, "after")>>
      [] req.kind = "GetChildOrders" ->
           <<to_query_parameter("ProductCode", req.product_code, "product_code"),
             to_query_parameter("u64", req.count, "count"),
             to_query_parameter("u64", req.before, "before"),
             to_query_parameter("u64", req.after, "after"),
             to_query_parameter("String", req.child_order_acceptance_id,
                                "child_order_acceptance_id"),
             to_query_parameter("String", req.parent_order_id, "child_order_id")>>
      [] req.kind = "GetParentOrders" ->
           <<to_query_parameter("ProductCode", req.product_code, "product_code"),
             to_query_parameter("u64", req.count, "count"),
             to_query_parameter("u64", req.before, "before"),
             to_query_parameter("u64", req.after, "after"),
             to_query_parameter("OrderState", req.parent_order_state,
                                "parent_order_state")>>
      [] req.kind = "GetParentOrder" ->
           <<to_query_parameter("String", req.parent_order_id, "parent_order_id"),
             to_query_parameter("String", req.parent_order_acceptance_id,
                                "parent_order_acceptance_id")>>
      [] req.kind = "GetPositions" ->
           <<to_query_parameter("ProductCode", Some("FxBtcJpy"), "product_code")>>
      [] OTHER -> <<>>

\* params.iter().filter_map(|x| x.as_ref()).collect(): the present pairs, in order.
RECURSIVE filter_map(_)
filter_map(params) ==
    IF params = <<>> THEN <<>>
    ELSE IF Head(params).some
         THEN <<Head(params).val>> \o filter_map(Tail(params))
         ELSE filter_map(Tail(params))

\* form_urlencoded's byte serializer on the strings of this model: a space
\* becomes "+"; letters, digits, "-", "_" and "." are kept.
FormEncode(s) == IF s = "JRF 2" THEN "JRF+2" ELSE s

\* Serializer::extend_pairs: each pair is appended to the URL's query with its
\* name and its value encoded.
RECURSIVE extend_pairs(_, _)
extend_pairs(query, pairs) ==
    IF pairs = <<>> THEN query
    ELSE extend_pairs(
            Append(query, <<FormEncode(Head(pairs)[1]), FormEncode(Head(pairs)[2])>>),
            Tail(pairs))

\* The text of a query: name=value for each pair, "&" between pairs.
RECURSIVE QueryString(_)
QueryString(pairs) ==
    IF pairs = <<>> THEN ""
    ELSE pairs[1][1] \o "=" \o pairs[1][2]
         \o (IF Len(pairs) > 1 THEN "&" ELSE "") \o QueryString(Tail(pairs))

\* Url::parse of an absolute URL without a query.
UrlParse(input) == [base |-> input, query |-> None]

\* Url::parse_with_params: the parsed URL with query_pairs_mut().extend_pairs(params);
\* query_pairs_mut starts the query, empty, when the URL had none.
UrlParseWithParams(input, params) ==
    [base |-> input, query |-> Some(extend_pairs(<<>>, params))]

\* Url::query: the text after "?", when the URL has a query.
UrlQuery(u) == IF u.query.some THEN Some(QueryString(u.query.val)) ELSE None

\* Url::as_str
UrlAsStr(u) == u.base \o (IF u.query.some THEN "?" \o QueryString(u.query.val) ELSE "")

\* ApiRequest::url without the params.is_empty() branch.
url_always_with_params(req) ==
    UrlParseWithParams(ENTRY_POINT \o PATH(req.kind), filter_map(url_params(req)))

\* ApiRequest::url
url(req) ==
    LET params == filter_map(url_params(req))
    IN  IF params = <<>>
        THEN UrlParse(ENTRY_POINT \o PATH(req.kind))
        ELSE UrlParseWithParams(ENTRY_POINT \o PATH(req.kind), params)

\* ------------------------------------------------------------ Result

Ok(v) == [ok |-> TRUE, val |-> v]

Err(e) == [ok |-> FALSE, err |-> e]

\* An anyhow::Error made from a message or from a library's error: it holds
\* that message and nothing of the call.
AnyhowError(message) ==
    [kind |-> message, status |-> 0, request |-> None, request_body |-> None,
     response |-> None]

\* ------------------------------------------------------ request bodies

\* A JSON object member "name":value.
JsonField(name, value) == JsonStr(name) \o ":" \o value

\* The members of #[serde(skip_serializing_if = "Option::is_none")] fields.
JsonOptionalFields(req) ==
    (IF req.minute_to_expire.some
     THEN "," \o JsonField("minute_to_expire", ToString(req.minute_to_expire.val))
     ELSE "")
    \o (IF req.time_in_force.some
        THEN "," \o JsonField("time_in_force", JsonStr(TimeInForceWire(req.time_in_force.val)))
        ELSE "")

\* ChildOrderType, internally tagged by child_order_type; a Decimal is
\* written as a JSON string.
ChildOrderTypeJson(t) ==
    IF t.tag = "Limit"
    THEN JsonField("child_order_type", JsonStr("LIMIT")) \o ","
         \o JsonField("price", JsonStr(t.price))
    ELSE JsonField("child_order_type", JsonStr("MARKET"))

\* ParentOrderConditionType::Market, internally tagged by condition_type.
ConditionJson(c) ==
    "{" \o JsonField("condition_type", JsonStr("MARKET")) \o ","
        \o JsonField("product_code", JsonStr(ProductCodeWire(c.product_code))) \o ","
        \o JsonField("side", JsonStr(SideWire(c.side))) \o ","
        \o JsonField("size", JsonStr(c.size)) \o "}"

\* serde_json::to_string(&self) of the descriptors that derive Serialize and
\* send a body; #[serde(flatten)] puts the tagged union's members first.
to_json(req) ==
    CASE req.kind = "SendChildOrder" ->
           "{" \o ChildOrderTypeJson(req.child_order_type) \o ","
               \o JsonField("product_code", JsonStr(ProductCodeWire(req.product_code))) \o ","
               \o JsonField("side", JsonStr(SideWire(req.side))) \o ","
               \o JsonField("size", JsonStr(req.size))
               \o JsonOptionalFields(req) \o "}"
      [] req.kind = "SendParentOrder" ->
           "{" \o JsonField("order_method", JsonStr("SIMPLE")) \o ","
               \o JsonField("parameters",
                            "[" \o ConditionJson(req.order_method.parameters[1]) \o "]")
               \o JsonOptionalFields(req) \o "}"
      [] req.kind = "CancelChildOrder" ->
           "{" \o JsonField("product_code", JsonStr(ProductCodeWire(req.product_code))) \o ","
               \o JsonField("child_order_acceptance_id",
                            JsonStr(req.child_order_acceptance_id)) \o "}"
      [] req.kind = "CancelParentOrder" ->
           "{" \o JsonField("product_code", JsonStr(ProductCodeWire(req.product_code))) \o ","
               \o JsonField("parent_order_acceptance_id",
                            JsonStr(req.parent_order_acceptance_id)) \o "}"
      [] req.kind = "CancelAllChildOrders" ->
           "{" \o JsonField("product_code", JsonStr(ProductCodeWire(req.product_code))) \o "}"

\* The descriptors that override body().
BodyKinds ==
    {"SendChildOrder", "CancelChildOrder", "SendParentOrder", "CancelParentOrder",
     "CancelAllChildOrders"}

\* ApiRequest::body: Ok(None) unless the descriptor serializes itself; the
\* serialization of these types does not fail.
body(req) == IF req.kind \in BodyKinds THEN Ok(Some(to_json(req))) ELSE Ok(None)

\* ---------------------------------------------------- response decoding

\* Response texts the transport may deliver.
ResponseTexts ==
    {"", "[]", "{\"child_order_acceptance_id\":\"JRF-1\"}",
     "{\"parent_order_acceptance_id\":\"JRF-1\"}", "<html>busy</html>"}

\* The descriptors whose Response is a Vec.
VecKinds ==
    {"GetMarkets", "GetExecutions", "GetPermissions", "GetBalance",
     "GetCollateralAccounts", "GetChildOrders", "GetParentOrders", "GetPositions"}

\* serde_json::from_str into the descriptor's Response, on ResponseTexts: "[]"
\* is an empty Vec, the two objects are the two order responses, and every
\* other text of the set is a serde_json error for every Response type.
from_str(kind, text) ==
    IF \/ kind \in VecKinds /\ text = "[]"
       \/ kind = "SendChildOrder" /\ text = "{\"child_order_acceptance_id\":\"JRF-1\"}"
       \/ kind = "SendParentOrder" /\ text = "{\"parent_order_acceptance_id\":\"JRF-1\"}"
    THEN Ok([type |-> "json", json |-> text])
    ELSE Err(AnyhowError("serde_json"))

\* The cancellation descriptors' deserialize_response_body.
deserialize_empty(text) ==
    IF text = ""
    THEN Ok([type |-> "Empty", json |-> ""])
    ELSE Err(AnyhowError("body is not empty"))

\* deserialize_response_body with the cancellation override left out.
deserialize_always_json(kind, text) == from_str(kind, text)

\* ApiRequest::deserialize_response_body: JSON unless the descriptor overrides it.
deserialize_response_body(kind, text) ==
    IF kind \in CancelKinds THEN deserialize_empty(text) ELSE from_str(kind, text)

\* ------------------------------------------------------------- signing

\* Hmac::<Sha256>::new_from_slice(secret): a keyed state that has read nothing.
new_from_slice(secret) == [key |-> secret, buf |-> ""]

\* Mac::update: the state has read the bytes of data after what it had read.
update(h, data) == [h EXCEPT !.buf = @ \o data]

\* Mac::finalize().into_bytes(): the digest, a function of the key and of
\* all the bytes read, and of nothing else.
finalize(h) == "HMAC-SHA256(" \o h.key \o ";" \o h.buf \o ")"

\* hash.iter().map(|n| format!("{:02x}", n)).collect::<String>()
hex(digest) == "hex[" \o digest \o "]"

\* The signed string with the method and the path exchanged.
canonical_path_first(timestamp, method, path, query, b) ==
    ToString(timestamp) \o path \o method
        \o (IF query.some THEN "?" \o query.val ELSE "")
        \o unwrap_or_default(b)

\* format!("{}{}{}{}{}", timestamp, METHOD, PATH, url.query() as "?query", body)
canonical(timestamp, method, path, query, b) ==
    ToString(timestamp) \o method \o path
        \o (IF query.some THEN "?" \o query.val ELSE "")
        \o unwrap_or_default(b)

\* HeaderValue::from_str on the API keys of this model: a key holding a line
\* break is refused, the empty key and a printable key are accepted.
HeaderValueOk(value) == value # "K\nEY"

\* The headers with the time read a second time for ACCESS-TIMESTAMP.
auth_headers_reread_time(api_key, timestamp, hash) ==
    {<<"ACCESS-KEY", api_key>>, <<"ACCESS-TIMESTAMP", ToString(timestamp + 1)>>,
     <<"ACCESS-SIGN", hash>>}

\* The three headers.insert calls of a private request.
auth_headers(api_key, timestamp, hash) ==
    {<<"ACCESS-KEY", api_key>>, <<"ACCESS-TIMESTAMP", ToString(timestamp)>>,
     <<"ACCESS-SIGN", hash>>}

CONTENT_TYPE == "content-type"

\* ------------------------------------------------------------ the client

Calls == 1..NumCalls

\* The values of the environment variables API_SECRET and API_KEY, when set.
Secrets == {"s3cret"}

ApiKeys == {"KEY1", "K\nEY"}

\* Client::new for the environment (API_SECRET, API_KEY), each set or unset.
Client_new(secret, key) ==
    [api_key |-> unwrap_or_default(key),
     hasher |-> IF secret.some THEN Some(new_from_slice(secret.val)) ELSE None]

\* Where the hasher states live: "self" is the client's field, and each call
\* slot has a place for the local variable `hasher` of send.
SelfPlace == 0

Places == {SelfPlace} \cup Calls

\* self.hasher used in place, without the clone.
clone_aliased(c) == SelfPlace

\* self.hasher.clone(): the copy is the call's own local variable.
clone_place(c) == c

\* StatusCode::is_success
is_success(status) == status >= 200 /\ status < 300

\* A call slot on which send is not running.
IdleCall ==
    [pc |-> "idle", request |-> None, url |-> None, timestamp |-> -1,
     body |-> None, data |-> "", hasher |-> SelfPlace, hash |-> "", headers |-> {},
     sent |-> <<>>, response |-> None, decoded |-> <<>>, trace |-> <<>>,
     result |-> None]

\* ------------------------------------------------------- Client::send

\* The branch taken after the URL is built, with the privacy test dropped.
after_url_never_private(kind) == "send_public"

\* if T::IS_PRIVATE { sign and send } else { send }
after_url(kind) == IF IS_PRIVATE(kind) THEN "sign" ELSE "send_public"

\* What the transport is handed: RequestBuilder::send of request(METHOD, url)
\* with the headers and the body set on it.
HttpRequest(method, u, headers, b) ==
    [method |-> method, url |-> UrlAsStr(u), query |-> UrlQuery(u),
     headers |-> headers, body |-> b]

\* The same error without the response text.
http_error_without_text(status, req, text) ==
    [kind |-> "request is failed", status |-> status, request |-> Some(req),
     request_body |-> Some(body(req)), response |-> None]

\* The error of the else branch of send:
\* "request is failed: status -> {}\nrequest -> {:?}\nrequest.body -> {:?}\nresponse -> {:?}"
http_error(status, req, text) ==
    [kind |-> "request is failed", status |-> status, request |-> Some(req),
     request_body |-> Some(body(req)), response |-> Some(text)]

Finish(call, result) == [call EXCEPT !.pc = "done", !.result = Some(result)]

\* send is called with a request on an idle slot.
Start(c, r) ==
    /\ calls[c].pc = "idle"
    /\ calls' = [calls EXCEPT ![c] = [IdleCall EXCEPT !.pc = "url", !.request = Some(r)]]
    /\ UNCHANGED <<client, heap, probe, probeUrl, decoder>>

\* let url = request.url()?; then the branch on IS_PRIVATE.
BuildUrl(c) ==
    /\ calls[c].pc = "url"
    /\ calls' = [calls EXCEPT ![c] =
                    [@ EXCEPT !.url = Some(url(calls[c].request.val)),
                              !.trace = Append(@, "BuiltUrl"),
                              !.pc = after_url(calls[c].request.val.kind)]]
    /\ UNCHANGED <<client, heap, probe, probeUrl, decoder>>

\* let timestamp = Utc::now().timestamp(); let body = request.body()?; let data = format!(..)
PrepareSign(c, now) ==
    /\ calls[c].pc = "sign"
    /\ LET req == calls[c].request.val
           b == body(req).val
       IN  calls' = [calls EXCEPT ![c] =
                        [@ EXCEPT !.timestamp = now,
                                  !.body = b,
                                  !.data = canonical(now, METHOD(req.kind), PATH(req.kind),
                                                     UrlQuery(calls[c].url.val), b),
                                  !.trace = Append(@, "BuiltBody"),
                                  !.pc = "hasher"]]
    /\ UNCHANGED <<client, heap, probe, probeUrl, decoder>>

\* A missing hasher answered by sending the request unsigned.
CloneHasherOrSendUnsigned(c) ==
    /\ calls[c].pc = "hasher"
    /\ IF heap[SelfPlace].some
       THEN /\ heap' = [heap EXCEPT ![clone_place(c)] = heap[SelfPlace]]
            /\ calls' = [calls EXCEPT ![c] =
                            [@ EXCEPT !.hasher = clone_place(c), !.pc = "update"]]
       ELSE /\ heap' = heap
            /\ calls' = [calls EXCEPT ![c].pc = "send_public"]
    /\ UNCHANGED <<client, probe, probeUrl, decoder>>

\* let mut hasher = self.hasher.clone().context("hasher is none")?;
CloneHasher(c) ==
    /\ calls[c].pc = "hasher"
    /\ IF heap[SelfPlace].some
       THEN /\ heap' = [heap EXCEPT ![clone_place(c)] = heap[SelfPlace]]
            /\ calls' = [calls EXCEPT ![c] =
                            [@ EXCEPT !.hasher = clone_place(c), !.pc = "update"]]
       ELSE /\ heap' = heap
            /\ calls' = [calls EXCEPT ![c] = Finish(@, Err(AnyhowError("hasher is none")))]
    /\ UNCHANGED <<client, probe, probeUrl, decoder>>

\* hasher.update(data.as_bytes());
UpdateHasher(c) ==
    /\ calls[c].pc = "update"
    /\ heap' = [heap EXCEPT ![calls[c].hasher] = Some(update(@.val, calls[c].data))]
    /\ calls' = [calls EXCEPT ![c].pc = "finalize"]
    /\ UNCHANGED <<client, probe, probeUrl, decoder>>

\* let hash = hasher.finalize().into_bytes(); and its rendering in hexadecimal.
Finalize(c) ==
    /\ calls[c].pc = "finalize"
    /\ calls' = [calls EXCEPT ![c] =
                    [@ EXCEPT !.hash = hex(finalize(heap[calls[c].hasher].val)),
                              !.pc = "headers"]]
    /\ UNCHANGED <<client, heap, probe, probeUrl, decoder>>

\* The three headers.insert calls; self.api_key.parse()? may refuse the key.
BuildHeaders(c) ==
    /\ calls[c].pc = "headers"
    /\ calls' = [calls EXCEPT ![c] =
                    IF HeaderValueOk(client.api_key)
                    THEN [@ EXCEPT !.headers = auth_headers(client.api_key, calls[c].timestamp,
                                                          calls[c].hash),
                                   !.trace = Append(@, "Signed"),
                                   !.pc = "send_private"]
                    ELSE Finish(@, Err(AnyhowError("invalid header value")))]
    /\ UNCHANGED <<client, heap, probe, probeUrl, decoder>>

\* The private branch with Content-Type set on every request, body or not.
SendPrivateAlwaysContentType(c) ==
    /\ calls[c].pc = "send_private"
    /\ LET call == calls[c]
           headers == call.headers \cup {<<CONTENT_TYPE, "application/json">>}
       IN  calls' = [calls EXCEPT ![c] =
                        [@ EXCEPT !.sent = Append(@, HttpRequest(METHOD(call.request.val.kind),
                                                                 call.url.val, headers, call.body)),
                                  !.trace = Append(@, "Sent"),
                                  !.pc = "await"]]
    /\ UNCHANGED <<client, heap, probe, probeUrl, decoder>>

\* The private branch's request(T::METHOD, url).headers(headers)[.body(body)].send()
SendPrivate(c) ==
    /\ calls[c].pc = "send_private"
    /\ LET call == calls[c]
           headers == IF call.body.some
                      THEN call.headers \cup {<<CONTENT_TYPE, "application/json">>}
                      ELSE call.headers
       IN  calls' = [calls EXCEPT ![c] =
                        [@ EXCEPT !.sent = Append(@, HttpRequest(METHOD(call.request.val.kind),
                                                                 call.url.val, headers, call.body)),
                                  !.trace = Append(@, "Sent"),
                                  !.pc = "await"]]
    /\ UNCHANGED <<client, heap, probe, probeUrl, decoder>>

\* The public branch's self.client.request(T::METHOD, url).send()
SendPublic(c) ==
    /\ calls[c].pc = "send_public"
    /\ LET call == calls[c]
       IN  calls' = [calls EXCEPT ![c] =
                        [@ EXCEPT !.sent = Append(@, HttpRequest(METHOD(call.request.val.kind),
                                                                 call.url.val, {}, None)),
                                  !.trace = Append(@, "Sent"),
                                  !.pc = "await"]]
    /\ UNCHANGED <<client, heap, probe, probeUrl, decoder>>

\* Texts and results of Response::text(): the body, or an error of the transport.
TextResults == {Ok(t) : t \in ResponseTexts} \cup {Err(AnyhowError("reqwest"))}

\* What the transport may answer to a request.
Responses == [status : {200, 503}, text : TextResults]

\* .send().await returns a response.
Respond(c, resp) ==
    /\ calls[c].pc = "await"
    /\ calls' = [calls EXCEPT ![c] = [@ EXCEPT !.response = Some(resp), !.pc = "status"]]
    /\ UNCHANGED <<client, heap, probe, probeUrl, decoder>>

\* A failed send answered by sending the request again.
TransportErrorRetry(c) ==
    /\ calls[c].pc = "await"
    /\ Len(calls[c].sent) < 2
    /\ calls' = [calls EXCEPT ![c] =
                    [@ EXCEPT !.sent = Append(@, calls[c].sent[1]), !.pc = "await"]]
    /\ UNCHANGED <<client, heap, probe, probeUrl, decoder>>

\* .send().await? fails: the transport's error is returned.
TransportError(c) ==
    /\ calls[c].pc = "await"
    /\ calls' = [calls EXCEPT ![c] = Finish(@, Err(AnyhowError("reqwest")))]
    /\ UNCHANGED <<client, heap, probe, probeUrl, decoder>>

\* The success branch: response.text().await? and T::deserialize_response_body(&body)?
Success(c) ==
    /\ calls[c].pc = "status"
    /\ is_success(calls[c].response.val.status)
    /\ LET call == calls[c]
           text == call.response.val.text
       IN  calls' = [calls EXCEPT ![c] =
                        IF text.ok
                        THEN Finish([call EXCEPT !.trace = Append(@, "Decoded"),
                                                 !.decoded = Append(@, text.val)],
                                    deserialize_response_body(call.request.val.kind, text.val))
                        ELSE Finish([call EXCEPT !.trace = Append(@, "Decoded")],
                                    Err(text.err))]
    /\ UNCHANGED <<client, heap, probe, probeUrl, decoder>>

\* The else branch: Err(anyhow!("request is failed: ...")).
Reject(c) ==
    /\ calls[c].pc = "status"
    /\ ~is_success(calls[c].response.val.status)
    /\ LET call == calls[c]
       IN  calls' = [calls EXCEPT ![c] =
                        Finish([call EXCEPT !.trace = Append(@, "Rejected")],
                               Err(http_error(call.response.val.status, call.request.val,
                                              call.response.val.text)))]
    /\ UNCHANGED <<client, heap, probe, probeUrl, decoder>>

\* send has returned: its locals are dropped and the slot is free again.
Return(c) ==
    /\ calls[c].pc = "done"
    /\ calls' = [calls EXCEPT ![c] = IdleCall]
    /\ heap' = [heap EXCEPT ![c] = None]
    /\ UNCHANGED <<client, probe, probeUrl, decoder>>

\* The steps of a running call.
Step(c) ==
    \/ BuildUrl(c)
    \/ CloneHasher(c)
    \/ UpdateHasher(c)
    \/ Finalize(c)
    \/ BuildHeaders(c)
    \/ SendPrivate(c)
    \/ SendPublic(c)
    \/ TransportError(c)
    \/ Success(c)
    \/ Reject(c)
    \/ Return(c)

\* ------------------------------------------- decoding the entity unions

\* A serde::de::Error: its message and the name or value it is about.
DeError(message, what) == [message |-> message, what |-> what]

\* The names serde gives the variants of each tagged union on the wire
\* (rename_all = "UPPERCASE" writes StopLimit as STOPLIMIT).
ChildOrderTypeVariants == {"LIMIT", "MARKET"}

ParentOrderConditionTypeVariants == {"LIMIT", "MARKET", "STOP", "STOPLIMIT", "TRAIL"}

ParentOrderMethodVariants == {"SIMPLE", "IFD", "OCO", "IFDOCO"}

\* The derived Deserialize of ProductCode with #[serde(other)] left out.
ProductCode_deserialize_without_other(s) ==
    IF \E p \in ProductCodes : ProductCodeWire(p) = s
    THEN Ok(CHOOSE p \in ProductCodes : ProductCodeWire(p) = s)
    ELSE Err(DeError("unknown variant", s))

\* The derived Deserialize of ProductCode on a JSON string: the variant with
\* that name, and the #[serde(other)] variant for every other string.
ProductCode_deserialize(s) ==
    IF \E p \in ProductCodes : ProductCodeWire(p) = s
    THEN Ok(CHOOSE p \in ProductCodes : ProductCodeWire(p) = s)
    ELSE Ok("Other")

\* The derived Deserialize of Side on a JSON string.
Side_deserialize(s) ==
    CASE s = "BUY" -> Ok("Buy")
      [] s = "SELL" -> Ok("Sell")
      [] OTHER -> Err(DeError("unknown variant", s))

\* The derived Deserialize of the internally tagged ChildOrderType on a JSON
\* object: the tag is looked up first; members that the variant does not
\* declare are ignored.
ChildOrderType_deserialize(obj) ==
    IF ~obj.child_order_type.some
    THEN Err(DeError("missing field", "child_order_type"))
    ELSE CASE obj.child_order_type.val = "LIMIT" ->
                IF obj.price.some
                THEN Ok([tag |-> "Limit", price |-> obj.price.val])
                ELSE Err(DeError("missing field", "price"))
           [] obj.child_order_type.val = "MARKET" -> Ok([tag |-> "Market"])
           [] OTHER -> Err(DeError("unknown variant", obj.child_order_type.val))

\* The fields each variant of ParentOrderConditionType declares after
\* product_code, side and size.
ConditionFields(variant) ==
    CASE variant = "Limit" -> <<"price">>
      [] variant = "Market" -> <<>>
      [] variant = "Stop" -> <<"trigger_price">>
      [] variant = "StopLimit" -> <<"price", "trigger_price">>
      [] variant = "Trail" -> <<"offset">>

\* The variant of ParentOrderConditionType with a wire name.
ConditionVariant(tag) ==
    CASE tag = "LIMIT" -> "Limit"
      [] tag = "MARKET" -> "Market"
      [] tag = "STOP" -> "Stop"
      [] tag = "STOPLIMIT" -> "StopLimit"
      [] tag = "TRAIL" -> "Trail"

\* The derived Deserialize of a struct variant of ParentOrderConditionType:
\* the members present are decoded, then the first declared field without a
\* member is reported missing.
Condition_fields_deserialize(variant, obj) ==
    LET declared == <<"product_code", "side", "size">> \o ConditionFields(variant)
        missing == {i \in DOMAIN declared : ~obj[declared[i]].some}
        firstMissing == CHOOSE i \in missing : \A j \in missing : i <= j
    IN  IF obj.side.some /\ ~Side_deserialize(obj.side.val).ok
        THEN Err(Side_deserialize(obj.side.val).err)
        ELSE IF missing # {}
        THEN Err(DeError("missing field", declared[firstMissing]))
        ELSE Ok([tag |-> variant,
                 product_code |-> ProductCode_deserialize(obj.product_code.val).val,
                 side |-> Side_deserialize(obj.side.val).val,
                 size |-> obj.size.val,
                 rest |-> [i \in DOMAIN ConditionFields(variant) |->
                              obj[ConditionFields(variant)[i]].val]])

\* The derived Deserialize of the internally tagged ParentOrderConditionType.
ParentOrderConditionType_deserialize(obj) ==
    IF ~obj.condition_type.some
    THEN Err(DeError("missing field", "condition_type"))
    ELSE IF obj.condition_type.val \in {"LIMIT", "MARKET", "STOP", "STOPLIMIT", "TRAIL"}
    THEN Condition_fields_deserialize(ConditionVariant(obj.condition_type.val), obj)
    ELSE Err(DeError("unknown variant", obj.condition_type.val))

\* <[ParentOrderConditionType; N]>::deserialize on a JSON array: N elements
\* are decoded one after another, and an array shorter or longer than N is
\* refused.
array_deserialize(n, seq) ==
    LET read == IF Len(seq) < n THEN Len(seq) ELSE n
        results == [i \in 1..read |-> ParentOrderConditionType_deserialize(seq[i])]
        bad == {i \in 1..read : ~results[i].ok}
        firstBad == CHOOSE i \in bad : \A j \in bad : i <= j
    IN  IF bad # {} THEN Err(results[firstBad].err)
        ELSE IF Len(seq) # n THEN Err(DeError("invalid length", ToString(Len(seq))))
        ELSE Ok([i \in 1..n |-> results[i].val])

\* The length of `parameters` in each variant of ParentOrderMethod.
ParametersLen(variant) ==
    CASE variant = "Simple" -> 1
      [] variant = "Ifd" -> 2
      [] variant = "Oco" -> 2
      [] variant = "Ifdoco" -> 3

\* The variant of ParentOrderMethod with a wire name.
MethodVariant(tag) ==
    CASE tag = "SIMPLE" -> "Simple"
      [] tag = "IFD" -> "Ifd"
      [] tag = "OCO" -> "Oco"
      [] tag = "IFDOCO" -> "Ifdoco"

\* The derived Deserialize of the internally tagged ParentOrderMethod.
ParentOrderMethod_deserialize(obj) ==
    IF ~obj.order_method.some
    THEN Err(DeError("missing field", "order_method"))
    ELSE IF obj.order_method.val \notin {"SIMPLE", "IFD", "OCO", "IFDOCO"}
    THEN Err(DeError("unknown variant", obj.order_method.val))
    ELSE IF ~obj.parameters.some
    THEN Err(DeError("missing field", "parameters"))
    ELSE LET variant == MethodVariant(obj.order_method.val)
             parameters == array_deserialize(ParametersLen(variant), obj.parameters.val)
         IN  IF parameters.ok
             THEN Ok([tag |-> variant, parameters |-> parameters.val])
             ELSE Err(parameters.err)

\* The JSON values given to the decoders: the strings for a product code,
\* and the objects for each union, a member being absent or having a value.
CodeStrings ==
    {ProductCodeWire(p) : p \in ProductCodes}
    \cup {"DOGE_JPY", "btc_jpy", "BtcJpy", ""}

ChildOrderTypeObjects ==
    [child_order_type : Opt({"LIMIT", "MARKET", "STOP", "limit", "Market"}),
     price : Opt({"100"})]

ConditionObjects ==
    [condition_type :
        Opt({"LIMIT", "MARKET", "STOP", "STOPLIMIT", "TRAIL", "STOP_LIMIT", "IFD"}),
     product_code : Opt({"FX_BTC_JPY", "DOGE_JPY"}),
     side : {Some("BUY"), Some("buy")},
     size : {Some("0.01")},
     price : Opt({"100"}),
     trigger_price : Opt({"100"}),
     offset : Opt(Nums)]

\* The conditions inside the `parameters` of the methods: a Market condition,
\* a Limit condition and a condition of an undeclared type.
ParameterObjects ==
    {o \in ConditionObjects :
        /\ o.product_code = Some("FX_BTC_JPY") /\ o.side = Some("BUY")
        /\ o.trigger_price = None /\ o.offset = None
        /\ \/ o.condition_type = Some("MARKET") /\ o.price = None
           \/ o.condition_type = Some("LIMIT") /\ o.price = Some("100")
           \/ o.condition_type = Some("STOP_LIMIT") /\ o.price = Some("100")}

\* The arrays of at most MaxParams conditions.
ParameterArrays ==
    UNION {[1..n -> ParameterObjects] : n \in 0..MaxParams}

MethodObjects ==
    [order_method : Opt({"SIMPLE", "IFD", "OCO", "IFDOCO", "simple", "LIMIT"}),
     parameters : Opt(ParameterArrays)]

\* The deserializer is given a JSON value for one of the types.
Read(type, value) ==
    /\ decoder.type = "idle"
    /\ decoder' = [type |-> type, input |-> value, result |-> None]
    /\ UNCHANGED <<client, heap, calls, probe, probeUrl>>

\* T::deserialize on the value.
Deserialize ==
    /\ decoder.type \in {"ProductCode", "ChildOrderType", "ParentOrderConditionType",
                         "ParentOrderMethod"}
    /\ decoder.result = None
    /\ decoder' =
          [decoder EXCEPT !.result = Some(
              CASE decoder.type = "ProductCode" -> ProductCode_deserialize(decoder.input)
                [] decoder.type = "ChildOrderType" -> ChildOrderType_deserialize(decoder.input)
                [] decoder.type = "ParentOrderConditionType" ->
                       ParentOrderConditionType_deserialize(decoder.input)
                [] decoder.type = "ParentOrderMethod" ->
                       ParentOrderMethod_deserialize(decoder.input))]
    /\ UNCHANGED <<client, heap, calls, probe, probeUrl>>

\* The value and what was decoded from it are dropped.
Drop ==
    /\ decoder.type # "idle"
    /\ decoder.result.some
    /\ decoder' = [type |-> "idle"]
    /\ UNCHANGED <<client, heap, calls, probe, probeUrl>>

\* ------------------------------------------------ decoding a timestamp

\* The texts of dates, their day number (days since 1970-01-01), the texts
\* of times of day with their hour and the rest, and the texts of offsets
\* with their hours, that chrono reads in this model.
DayNumber(date) ==
    CASE date = "2015-07-08" -> 16624
      [] date = "2015-12-31" -> 16800

DateTexts == {"2015-07-08", "2015-12-31"}

HourOf(time) ==
    CASE time = "02:50:59.97" -> 2
      [] time = "23:00:00" -> 23

AfterHour(time) ==
    CASE time = "02:50:59.97" -> ":50:59.97"
      [] time = "23:00:00" -> ":00:00"

TimeTexts == {"02:50:59.97", "23:00:00"}

OffsetHours(offset) ==
    CASE offset = "Z" -> 0
      [] offset = "+00:00" -> 0
      [] offset = "+09:00" -> 9
      [] offset = "-05:00" -> -5

OffsetTexts == {"Z", "+00:00", "+09:00", "-05:00"}

\* DateTime::with_timezone(&Utc): the same instant, as a day and an hour of UTC.
with_timezone_utc(date, time, offset) ==
    LET hours == DayNumber(date) * 24 + HourOf(time) - OffsetHours(offset)
    IN  [day |-> hours \div 24, hour |-> hours % 24, rest |-> AfterHour(time)]

\* chrono's ParseError: it holds the kind of the failure and no text.
ParseError == [kind |-> "ParseErrorKind"]

\* DateTime::<Utc>::from_str: a date, "T", a time of day and an offset, and
\* nothing before, between or after them, is that instant in UTC; any other
\* text is a ParseError.
DateTime_from_str(s) ==
    IF \E d \in DateTexts, t \in TimeTexts, o \in OffsetTexts : s = d \o "T" \o t \o o
    THEN LET parts == CHOOSE p \in DateTexts \X TimeTexts \X OffsetTexts :
                          s = p[1] \o "T" \o p[2] \o p[3]
         IN  Ok(with_timezone_utc(parts[1], parts[2], parts[3]))
    ELSE Err(ParseError)

\* de::Error::custom(e) of a ParseError: an error whose message is the
\* Display of e.
custom(e) == DeError("custom: " \o e.kind, "")

\* The strings given to the timestamp decoder: with and without each part.
TimeStrings ==
    {d \o sep \o t \o o :
        d \in DateTexts \cup {"2015-13-08", ""}, sep \in {"T", ""},
        t \in TimeTexts \cup {""},
        o \in OffsetTexts \cup {"", "+00:00+00:00", "+09:00 JST"}}
    \cup {"not-a-date"}

\* d.deserialize_str(TimeStampVisitor) calls visit_str with the string.
deserialize_str(value) ==
    /\ decoder.type = "idle"
    /\ decoder' = [type |-> "TimeStamp", input |-> value, attempts |-> <<>>,
                   result |-> None]
    /\ UNCHANGED <<client, heap, calls, probe, probeUrl>>

\* match DateTime::<Utc>::from_str(value) { Ok(datetime) => Ok(datetime), Err(_) => .. }
FirstParse ==
    /\ decoder.type = "TimeStamp"
    /\ decoder.attempts = <<>>
    /\ LET parsed == DateTime_from_str(decoder.input)
       IN  decoder' = [decoder EXCEPT
                          !.attempts = <<decoder.input>>,
                          !.result = IF parsed.ok THEN Some(parsed) ELSE None]
    /\ UNCHANGED <<client, heap, calls, probe, probeUrl>>

\* let value = format!("{value}+00:00");
\* DateTime::<Utc>::from_str(&value).map_err(de::Error::custom)
SecondParse ==
    /\ decoder.type = "TimeStamp"
    /\ Len(decoder.attempts) = 1
    /\ decoder.result = None
    /\ LET value == decoder.input \o "+00:00"
           parsed == DateTime_from_str(value)
       IN  decoder' = [decoder EXCEPT
                          !.attempts = Append(@, value),
                          !.result = Some(IF parsed.ok THEN parsed
                                          ELSE Err(custom(parsed.err)))]
    /\ UNCHANGED <<client, heap, calls, probe, probeUrl>>

\* ------------------------------------------------ the specifications

\* The requests sent in the model of send: public and private descriptors,
\* with and without a query, with and without a body, JSON and empty answers.
SendRequests ==
    {r \in AllRequests :
        \/ r.kind \in {"GetMarkets", "GetBalance", "GetPositions", "GetParentOrder"}
        \/ r.kind = "GetTicker" /\ r.product_code \in Opt({"BtcJpy"})
        \/ /\ r.kind \in {"SendChildOrder", "SendParentOrder"}
           /\ r.minute_to_expire = None
           /\ r.time_in_force \in Opt({"Gtc"})
           /\ r.kind = "SendChildOrder" => r.side = "Buy"
           /\ r.kind = "SendParentOrder" => r.order_method.parameters[1].side = "Sell"
        \/ r.kind \in CancelKinds /\ r.product_code = "BtcJpy"}

\* The state no specification changes: the part of the model it does not use.
NoProbe == probe = None /\ probeUrl = None

\* No value is being decoded.
NoDecoder == decoder = [type |-> "idle"]

NoClient ==
    /\ client = [client |-> "reqwest::Client", api_key |-> ""]
    /\ heap = [p \in Places |-> None]
    /\ calls = [c \in Calls |-> IdleCall]

\* Client::new() under every environment, and no call running.
Init ==
    /\ \E secret \in Opt(Secrets), key \in Opt(ApiKeys) :
          LET new == Client_new(secret, key)
          IN  /\ client = [client |-> "reqwest::Client", api_key |-> new.api_key]
              /\ heap = [p \in Places |-> IF p = SelfPlace THEN new.hasher ELSE None]
    /\ calls = [c \in Calls |-> IdleCall]
    /\ NoProbe
    /\ NoDecoder

\* One call at a time on the client, any number of calls one after another.
Next ==
    \E c \in Calls :
        \/ /\ \A d \in Calls : calls[d].pc = "idle"
           /\ \E r \in SendRequests : Start(c, r)
        \/ \E now \in 0..MaxTime : PrepareSign(c, now)
        \/ \E resp \in Responses : Respond(c, resp)
        \/ Step(c)

Spec == Init /\ [][Next]_vars

\* The requests and answers of the concurrent calls: a public descriptor, a
\* private one with a query and a private one with a body.
ConcRequests ==
    {r \in SendRequests :
        \/ r.kind = "GetMarkets"
        \/ /\ r.kind = "GetParentOrder"
           /\ r.parent_order_id = Some("JRF 2")
           /\ r.parent_order_acceptance_id = None
        \/ r.kind = "CancelAllChildOrders"}

ConcResponses ==
    {r \in Responses :
        \/ r.status = 200 /\ r.text = Ok("")
        \/ r.status = 503 /\ r.text = Ok("<html>busy</html>")}

\* The calls that run at once read the clock at its first or at its last value.
ConcTimes == {0, MaxTime}

\* A client with a secret, and no call running.
InitConc == Init /\ heap[SelfPlace].some /\ client.api_key = "KEY1"

\* Any number of calls at once on the one client, in any interleaving.
NextConc ==
    \E c \in Calls :
        \/ \E r \in ConcRequests : Start(c, r)
        \/ \E now \in ConcTimes : PrepareSign(c, now)
        \/ \E resp \in ConcResponses : Respond(c, resp)
        \/ Step(c)

SpecConc == InitConc /\ [][NextConc]_vars

\* The caller makes a descriptor value.
Construct(r) ==
    /\ probe = None
    /\ probe' = Some(r)
    /\ probeUrl' = None
    /\ UNCHANGED <<client, heap, calls, decoder>>

\* The caller drops the descriptor and what it got from it.
Discard ==
    /\ probe.some
    /\ probe' = None
    /\ probeUrl' = None
    /\ UNCHANGED <<client, heap, calls, decoder>>

\* The caller asks the descriptor for its URL.
CallUrl ==
    /\ probe.some
    /\ probeUrl = None
    /\ probeUrl' = Some(url(probe.val))
    /\ UNCHANGED <<client, heap, calls, probe, decoder>>

InitUrl == NoClient /\ NoProbe /\ NoDecoder

NextUrl == (\E r \in AllRequests : Construct(r)) \/ CallUrl \/ Discard

\* Every descriptor value, and url() on it.
SpecUrl == InitUrl /\ [][NextUrl]_vars

InitEntity == NoClient /\ NoProbe /\ NoDecoder

NextEntity ==
    \/ \E s \in CodeStrings : Read("ProductCode", s)
    \/ \E o \in ChildOrderTypeObjects : Read("ChildOrderType", o)
    \/ \E o \in ConditionObjects : Read("ParentOrderConditionType", o)
    \/ \E o \in MethodObjects : Read("ParentOrderMethod", o)
    \/ Deserialize
    \/ Drop

\* Every JSON value of the sets above, and the decoder of its type on it.
SpecEntity == InitEntity /\ [][NextEntity]_vars

InitTime == NoClient /\ NoProbe /\ NoDecoder

NextTime ==
    \/ \E s \in TimeStrings : deserialize_str(s)
    \/ FirstParse
    \/ SecondParse
    \/ Drop

\* Every string of TimeStrings, and TimeStampVisitor::visit_str on it.
SpecTime == InitTime /\ [][NextTime]_vars

\* ------------------------------------------------------------ the claims

\* The declared parameters of the descriptor under url() whose value is present.
PresentParams == {i \in DOMAIN url_params(probe.val) : url_params(probe.val)[i].some}

\* C9: the query of the URL built by url() holds one pair for each declared
\* parameter whose value is present, in the declared order and with the
\* declared name, and none for an absent value; with no value present the URL
\* has no query at all, not an empty one.
C9_QueryIsPresentParamsInOrder ==
    probeUrl.some =>
        LET declared == url_params(probe.val)
            query == probeUrl.val.query
            Rank(i) == Cardinality({j \in PresentParams : j <= i})
        IN  /\ probeUrl.val.base = ENTRY_POINT \o PATH(probe.val.kind)
            /\ IF PresentParams = {}
               THEN /\ query = None
                    /\ UrlAsStr(probeUrl.val) = ENTRY_POINT \o PATH(probe.val.kind)
               ELSE /\ query.some
                    /\ Len(query.val) = Cardinality(PresentParams)
                    /\ \A i \in PresentParams :
                          query.val[Rank(i)] =
                              <<FormEncode(declared[i].val[1]), FormEncode(declared[i].val[2])>>

\* url() has run on a descriptor with a present value, an absent one after it
\* and a present one after that.
C9_Witness ==
    /\ probeUrl.some
    /\ probe.val.kind = "GetExecutions"
    /\ probe.val.product_code.some
    /\ ~probe.val.count.some
    /\ probe.val.after.some
    /\ UrlQuery(probeUrl.val).some

IsPrefix(s, t) == Len(s) <= Len(t) /\ SubSeq(t, 1, Len(s)) = s

Events(c) == {calls[c].trace[i] : i \in DOMAIN calls[c].trace}

Kind(c) == calls[c].request.val.kind

\* The fixed orders of the steps of a call: the body and the signature are
\* steps of a private call only.
StepOrders(private) ==
    LET upToSent == IF private THEN <<"BuiltUrl", "BuiltBody", "Signed", "Sent">>
                    ELSE <<"BuiltUrl", "Sent">>
    IN  {upToSent \o <<"Decoded">>, upToSent \o <<"Rejected">>}

\* C1: the steps a call has taken are, at every moment, the first steps of
\* BuiltUrl, BuiltBody, Signed, Sent, then Decoded or Rejected (private) or of
\* BuiltUrl, Sent, then Decoded or Rejected (public): the URL and the body
\* are there before the signature, the signature before the request is handed
\* to the transport, a signature is made only for a private descriptor and
\* always before a private request is sent, Decoded and Rejected never both
\* happen and neither happens before Sent, and a call that has got a response
\* has ended in exactly one of them, Decoded for a success status and
\* Rejected otherwise.
C1_StepsInFixedOrder ==
    \A c \in Calls :
        calls[c].pc # "idle" =>
            LET call == calls[c]
                private == IS_PRIVATE(Kind(c))
            IN  /\ \E order \in StepOrders(private) : IsPrefix(call.trace, order)
                /\ "BuiltUrl" \in Events(c) <=> call.url.some
                /\ "Signed" \in Events(c) <=> call.headers # {}
                /\ "Signed" \in Events(c) => private /\ call.hash # ""
                /\ "Sent" \in Events(c) <=> call.sent # <<>>
                /\ "Sent" \in Events(c) /\ private => call.sent[1].headers # {}
                /\ call.response.some => "Sent" \in Events(c)
                /\ call.pc = "done" /\ call.response.some =>
                      call.trace[Len(call.trace)] =
                          IF is_success(call.response.val.status)
                          THEN "Decoded" ELSE "Rejected"

\* A private call has gone through all its steps and has decoded its response.
C1_Witness ==
    \E c \in Calls :
        /\ calls[c].pc = "done"
        /\ calls[c].trace = <<"BuiltUrl", "BuiltBody", "Signed", "Sent", "Decoded">>
        /\ calls[c].result.val.ok

\* C2: a private call on a client without a hasher never hands a request to
\* the transport, and it ends with the error "hasher is none".
C2_NoSecretNoRequest ==
    \A c \in Calls :
        calls[c].pc # "idle" /\ IS_PRIVATE(Kind(c)) /\ ~heap[SelfPlace].some =>
            /\ calls[c].sent = <<>>
            /\ calls[c].pc \notin {"send_private", "send_public", "await", "status"}
            /\ calls[c].pc = "done" =>
                  calls[c].result.val = Err(AnyhowError("hasher is none"))

\* A private call on a client without a hasher has ended.
C2_Witness ==
    \E c \in Calls :
        /\ calls[c].pc = "done"
        /\ IS_PRIVATE(Kind(c))
        /\ ~heap[SelfPlace].some
        /\ ~calls[c].result.val.ok

\* The private calls whose hasher has read the string to sign.
HasSigned(c) ==
    /\ calls[c].pc \in {"finalize", "headers", "send_private", "await", "status", "done"}
    /\ IS_PRIVATE(Kind(c))
    /\ heap[SelfPlace].some

\* The string a call's hasher has read.
SignedString(c) == heap[calls[c].hasher].val.buf

\* C3: the string a private call signs is the timestamp, the method, the
\* path, "?" and the URL's query when the URL has one (and then the query is
\* not empty), and the body when there is one, in this order; the request
\* handed to the transport carries that same query and that same body.
C3_SignedStringIsCanonical ==
    \A c \in Calls :
        HasSigned(c) =>
            LET call == calls[c]
                query == UrlQuery(call.url.val)
            IN  /\ query.some => query.val # ""
                /\ SignedString(c) =
                      ToString(call.timestamp) \o METHOD(Kind(c)) \o PATH(Kind(c))
                          \o (IF query.some THEN "?" \o query.val ELSE "")
                          \o (IF call.body.some THEN call.body.val ELSE "")
                /\ call.sent # <<>> =>
                      /\ call.sent[1].query = query
                      /\ call.sent[1].body = call.body
                      /\ call.sent[1].body = body(call.request.val).val
                      /\ call.sent[1].url = UrlAsStr(url(call.request.val))

\* A private request with a query has been handed to the transport.
C3_Witness ==
    \E c \in Calls :
        /\ HasSigned(c)
        /\ calls[c].sent # <<>>
        /\ calls[c].sent[1].query.some

AuthHeaderNames == {"ACCESS-KEY", "ACCESS-TIMESTAMP", "ACCESS-SIGN"}

\* C4: a request sent for a private descriptor carries the three
\* authentication headers and one value for each: the client's API key as it
\* is, the timestamp that opens the signed string, and the digest of the
\* signed string under the client's secret; a request sent for a public
\* descriptor carries none of them.
C4_AuthHeaders ==
    \A c \in Calls :
        calls[c].sent # <<>> =>
            LET call == calls[c]
                auth == {h \in call.sent[1].headers : h[1] \in AuthHeaderNames}
                query == UrlQuery(call.url.val)
            IN  IF IS_PRIVATE(Kind(c))
                THEN /\ auth =
                          {<<"ACCESS-KEY", client.api_key>>,
                           <<"ACCESS-TIMESTAMP", ToString(call.timestamp)>>,
                           <<"ACCESS-SIGN",
                             hex(finalize([key |-> heap[SelfPlace].val.key,
                                           buf |-> SignedString(c)]))>>}
                     /\ SignedString(c) =
                          ToString(call.timestamp) \o METHOD(Kind(c)) \o PATH(Kind(c))
                              \o (IF query.some THEN "?" \o query.val ELSE "")
                              \o (IF call.body.some THEN call.body.val ELSE "")
                ELSE auth = {}

\* A private request has been handed to the transport after the clock moved.
C4_Witness ==
    \E c \in Calls :
        /\ calls[c].sent # <<>>
        /\ IS_PRIVATE(Kind(c))
        /\ calls[c].timestamp > 0

\* The calls that have got a response with a status that is not a success.
GotFailureStatus(c) ==
    calls[c].response.some /\ ~is_success(calls[c].response.val.status)

\* C5: a call whose response has a status that is not a success never passes
\* anything to deserialize_response_body and ends in Rejected, with an error
\* that holds the status, the request (and its body) and the text of the
\* response as Response::text() gave it.
C5_FailureStatusIsRejected ==
    \A c \in Calls :
        GotFailureStatus(c) =>
            LET call == calls[c]
                resp == call.response.val
            IN  /\ call.decoded = <<>>
                /\ "Decoded" \notin Events(c)
                /\ call.pc = "done" =>
                      /\ call.trace[Len(call.trace)] = "Rejected"
                      /\ ~call.result.val.ok
                      /\ call.result.val.err.status = resp.status
                      /\ call.result.val.err.request = Some(call.request.val)
                      /\ call.result.val.err.response = Some(resp.text)
                      /\ resp.text.ok =>
                            call.result.val.err.response.val.val = resp.text.val

\* A call has ended on a status 503 whose text could be read.
C5_Witness ==
    \E c \in Calls :
        /\ calls[c].pc = "done"
        /\ GotFailureStatus(c)
        /\ calls[c].response.val.text = Ok("<html>busy</html>")

\* The calls that have ended on a success status with a text that
\* deserialize_response_body refuses.
DecodeFailed(c) ==
    /\ calls[c].pc = "done"
    /\ calls[c].response.some
    /\ is_success(calls[c].response.val.status)
    /\ calls[c].response.val.text.ok
    /\ ~deserialize_response_body(Kind(c), calls[c].response.val.text.val).ok

\* C6: a call that ends on a success status with a text that
\* deserialize_response_body refuses returns an error that has the raw text
\* of the response attached, and has sent one request only.
C6_DecodeErrorCarriesText ==
    \A c \in Calls :
        DecodeFailed(c) =>
            /\ ~calls[c].result.val.ok
            /\ calls[c].result.val.err.response = Some(calls[c].response.val.text)
            /\ Len(calls[c].sent) = 1

\* C7: a call hands at most one request to the transport, however it ends.
C7_AtMostOneRequest ==
    \A c \in Calls :
        /\ Len(calls[c].sent) <= 1
        /\ calls[c].pc = "done" /\ "Sent" \in Events(c) => Len(calls[c].sent) = 1
        /\ calls[c].pc \in {"await", "status"} => Len(calls[c].sent) = 1

\* A call has ended with an error after its request was handed to the transport.
C7_Witness ==
    \E c \in Calls :
        /\ calls[c].pc = "done"
        /\ ~calls[c].result.val.ok
        /\ Len(calls[c].sent) = 1

\* The signature of every private call is the digest, under the client's
\* secret, of the string made of that call's own timestamp, method, path,
\* query and body.
SignaturesOwn ==
    \A c \in Calls :
        calls[c].hash # "" =>
            LET call == calls[c]
                query == UrlQuery(url(call.request.val))
                b == body(call.request.val).val
            IN  call.hash =
                    hex(finalize(update(new_from_slice(heap[SelfPlace].val.key),
                        ToString(call.timestamp) \o METHOD(Kind(c)) \o PATH(Kind(c))
                            \o (IF query.some THEN "?" \o query.val ELSE "")
                            \o (IF b.some THEN b.val ELSE ""))))

\* No step of any call changes the client: its API key, its transport handle
\* and its hasher.
ClientUnchanged == client' = client /\ heap'[SelfPlace] = heap[SelfPlace]

\* C8: with calls running at once in any interleaving, no step changes the
\* client's state, and the signature of each private call is the digest of
\* that call's own string, the value the call gives when it runs alone.
C8_CallsDoNotInterfere == [](SignaturesOwn) /\ [][ClientUnchanged]_vars

\* Two private calls with different requests and different timestamps have
\* both signed and are both running.
C8_Witness ==
    \E c, d \in Calls :
        /\ c # d
        /\ calls[c].hash # "" /\ calls[d].hash # ""
        /\ calls[c].request # calls[d].request
        /\ calls[c].timestamp # calls[d].timestamp
        /\ calls[c].pc = "headers" /\ calls[d].pc = "headers"

\* The calls for a cancellation that have ended on a success status whose
\* text could be read.
CancelAnswered(c) ==
    /\ calls[c].pc = "done"
    /\ Kind(c) \in CancelKinds
    /\ calls[c].response.some
    /\ is_success(calls[c].response.val.status)
    /\ calls[c].response.val.text.ok

\* C10: a cancellation call that gets a success status succeeds exactly when
\* the text of the response is empty; with another text it fails with "body
\* is not empty", and in neither case is the text given to the JSON decoder.
C10_CancelSucceedsIffEmptyBody ==
    \A c \in Calls :
        CancelAnswered(c) =>
            LET text == calls[c].response.val.text.val
                result == calls[c].result.val
            IN  /\ result.ok <=> text = ""
                /\ result.ok => result.val.type = "Empty"
                /\ ~result.ok => result.err.kind = "body is not empty"

\* A cancellation has succeeded on an empty text.
C10_Witness ==
    \E c \in Calls :
        /\ CancelAnswered(c)
        /\ Kind(c) = "CancelChildOrder"
        /\ calls[c].result.val.ok

\* The Content-Type headers of the request a call has handed to the transport.
ContentTypes(c) == {h \in calls[c].sent[1].headers : h[1] = CONTENT_TYPE}

\* C11: a request handed to the transport carries a Content-Type header only
\* when it has a body, and then it is Content-Type: application/json: the
\* request of a public descriptor and the request of a private descriptor
\* whose body() is None carry no Content-Type header.
C11_ContentTypeOnlyWithBody ==
    \A c \in Calls :
        calls[c].sent # <<>> =>
            LET sent == calls[c].sent[1]
                b == body(calls[c].request.val).val
            IN  /\ sent.body = (IF IS_PRIVATE(Kind(c)) THEN b ELSE None)
                /\ ContentTypes(c) # {} => sent.body.some
                /\ ~IS_PRIVATE(Kind(c)) => ContentTypes(c) = {}
                /\ ~b.some => ContentTypes(c) = {}
                /\ sent.body.some => ContentTypes(c) = {<<CONTENT_TYPE, "application/json">>}

\* A private request without a body has been handed to the transport, with
\* its three authentication headers.
C11_Witness ==
    \E c \in Calls :
        /\ calls[c].sent # <<>>
        /\ IS_PRIVATE(Kind(c))
        /\ ~calls[c].sent[1].body.some
        /\ Cardinality(calls[c].sent[1].headers) = 3

\* The decoder of a type has run on a value.
Decoded(type) == decoder.type = type /\ decoder.result.some

\* The decoder has refused the value because of the name `tag`.
UnknownVariant(tag) ==
    /\ ~decoder.result.val.ok
    /\ decoder.result.val.err = DeError("unknown variant", tag)

\* C12: decoding a ChildOrderType, a ParentOrderConditionType or a
\* ParentOrderMethod whose discriminator is a string outside the union's
\* variant names fails with the error "unknown variant", whatever the other
\* members are, and so does decoding a ParentOrderMethod one of whose
\* conditions has such a discriminator; decoding a ProductCode from a string
\* never fails: a known name gives its variant and every other string gives
\* the variant Other.
C12_ClosedUnionsFailProductCodeIsOpen ==
    /\ Decoded("ChildOrderType") /\ decoder.input.child_order_type.some
          /\ decoder.input.child_order_type.val \notin ChildOrderTypeVariants
       => UnknownVariant(decoder.input.child_order_type.val)
    /\ Decoded("ParentOrderConditionType") /\ decoder.input.condition_type.some
          /\ decoder.input.condition_type.val \notin ParentOrderConditionTypeVariants
       => UnknownVariant(decoder.input.condition_type.val)
    /\ Decoded("ParentOrderMethod") /\ decoder.input.order_method.some
          /\ decoder.input.order_method.val \notin ParentOrderMethodVariants
       => UnknownVariant(decoder.input.order_method.val)
    /\ Decoded("ParentOrderMethod") /\ decoder.result.val.ok
       => \A i \in DOMAIN decoder.input.parameters.val :
             decoder.input.parameters.val[i].condition_type.val
                 \in ParentOrderConditionTypeVariants
    /\ Decoded("ProductCode")
       => /\ decoder.result.val.ok
          /\ decoder.result.val.val \in ProductCodes
          /\ IF \E p \in ProductCodes \ {"Other"} : ProductCodeWire(p) = decoder.input
             THEN ProductCodeWire(decoder.result.val.val) = decoder.input
             ELSE decoder.result.val.val = "Other"

\* The string DOGE_JPY, which names no product code, has been decoded.
C12_Witness ==
    /\ Decoded("ProductCode")
    /\ decoder.input = "DOGE_JPY"
    /\ decoder.result.val = Ok("Other")

\* The parses the timestamp decoder makes are the input first and, only
\* after that parse has failed, the input followed by "+00:00"; a parse that
\* succeeds is what the decoder returns.
TimestampAttemptsInOrder ==
    decoder.type = "TimeStamp" =>
        LET first == DateTime_from_str(decoder.input)
            second == DateTime_from_str(decoder.input \o "+00:00")
        IN  /\ IsPrefix(decoder.attempts, <<decoder.input, decoder.input \o "+00:00">>)
            /\ Len(decoder.attempts) = 2 => ~first.ok
            /\ decoder.result.some /\ first.ok =>
                  decoder.result.val = first /\ decoder.attempts = <<decoder.input>>
            /\ decoder.result.some /\ ~first.ok /\ second.ok =>
                  decoder.result.val = second
            /\ decoder.result.some /\ ~first.ok /\ ~second.ok => ~decoder.result.val.ok

\* C13: the timestamp decoder returns the parse of the input when it
\* succeeds; otherwise, and only then, it parses the input followed by
\* "+00:00" and returns that parse when it succeeds; when both parses fail
\* it returns an error that has the offending string attached.
C13_TimestampTwoAttempts ==
    /\ TimestampAttemptsInOrder
    /\ decoder.type = "TimeStamp" /\ decoder.result.some /\ ~decoder.result.val.ok =>
          decoder.result.val.err.what
              \in {decoder.attempts[i] : i \in DOMAIN decoder.attempts}

\* The fields of GetChildOrders in the order of their declaration, each with
\* the type of its value.
GetChildOrdersFields ==
    <<<<"product_code", "ProductCode">>, <<"count", "u64">>, <<"before", "u64">>,
      <<"after", "u64">>, <<"child_order_acceptance_id", "String">>,
      <<"parent_order_id", "String">>>>

\* The pairs of the query of the URL that url() has built.
QueryPairs ==
    IF probeUrl.val.query.some
    THEN {probeUrl.val.query.val[i] : i \in DOMAIN probeUrl.val.query.val}
    ELSE {}

\* C14: the URL built for a GetChildOrders descriptor carries the value of
\* each of its fields that is present in a query parameter that has the name
\* of the field, and has no parameter of that name for a field that is
\* absent; so for parent_order_id: present, its value is in the parameter
\* parent_order_id, and absent, there is no parameter parent_order_id.
C14_GetChildOrdersParameterNames ==
    probeUrl.some /\ probe.val.kind = "GetChildOrders" =>
        \A i \in DOMAIN GetChildOrdersFields :
            LET name == GetChildOrdersFields[i][1]
                field == probe.val[name]
            IN  IF field.some
                THEN <<name, FormEncode(to_string(GetChildOrdersFields[i][2], field.val))>>
                         \in QueryPairs
                ELSE \A pair \in QueryPairs : pair[1] # name

=============================================================================
